---- MODULE Spec2Model ----
(***************************************************************************)
(* Model of the fraud-lookup engine of src/app.py: the normalizers, the    *)
(* index builder (fetch_and_parse_csv), the refresh that installs both     *)
(* families' indexes under data_lock (fetch_and_parse_all), the cross-     *)
(* linker (contacts_for_*_entry), the query resolver (get_query_result)    *)
(* and the scorer (_finalize_result_with_total).                           *)
(*                                                                         *)
(* A Python str is a sequence of one-character strings; None is the        *)
(* distinguished value NONE; a dict is a function on its key set.          *)
(***************************************************************************)
EXTENDS Integers, Sequences, FiniteSets, TLC

(***************************************************************************)
(* Strings                                                                 *)
(***************************************************************************)
NONE == <<"None">>

Whitespace == {" ", "\t", "\n"}

UpperChars == <<"A", "B", "C", "D", "E", "F", "G", "H", "I", "J", "K", "L", "M", "N", "O", "P", "Q", "R", "S", "T", "U", "V", "W", "X", "Y", "Z">>
LowerChars == <<"a", "b", "c", "d", "e", "f", "g", "h", "i", "j", "k", "l", "m", "n", "o", "p", "q", "r", "s", "t", "u", "v", "w", "x", "y", "z">>

LowerChar(c) ==
    IF \E i \in DOMAIN UpperChars : UpperChars[i] = c
    THEN LowerChars[CHOOSE i \in DOMAIN UpperChars : UpperChars[i] = c]
    ELSE c

Lower(s) == [i \in 1..Len(s) |-> LowerChar(s[i])]

Rep(c, n) == [i \in 1..n |-> c]

ToSet(s) == {s[i] : i \in DOMAIN s}

RECURSIVE LStripChars(_, _)
LStripChars(s, chars) ==
    IF s # <<>> /\ Head(s) \in chars THEN LStripChars(Tail(s), chars) ELSE s

RECURSIVE RStripChars(_, _)
RStripChars(s, chars) ==
    IF s # <<>> /\ s[Len(s)] \in chars
    THEN RStripChars(SubSeq(s, 1, Len(s) - 1), chars)
    ELSE s

\* str.strip(chars)
StripChars(s, chars) == RStripChars(LStripChars(s, chars), chars)

\* str.strip()
Strip(s) == StripChars(s, Whitespace)

\* str.split(): the maximal runs of non-whitespace characters, in order
RECURSIVE SplitAcc(_, _, _)
SplitAcc(s, cur, acc) ==
    IF s = <<>>
    THEN IF cur = <<>> THEN acc ELSE Append(acc, cur)
    ELSE IF Head(s) \in Whitespace
         THEN SplitAcc(Tail(s), <<>>, IF cur = <<>> THEN acc ELSE Append(acc, cur))
         ELSE SplitAcc(Tail(s), Append(cur, Head(s)), acc)

Split(s) == SplitAcc(s, <<>>, <<>>)

\* " ".join(tokens)
RECURSIVE JoinSpace(_)
JoinSpace(toks) ==
    IF toks = <<>> THEN <<>>
    ELSE IF Len(toks) = 1 THEN toks[1]
         ELSE toks[1] \o <<" ">> \o JoinSpace(Tail(toks))

\* str.replace(old, new) for single characters
ReplaceChar(s, old, new) == [i \in 1..Len(s) |-> IF s[i] = old THEN new ELSE s[i]]

(***************************************************************************)
(* Normalizer                                                              *)
(***************************************************************************)
PhoneLen == 11

normalize_phone(phone) ==
    LET p == Strip(phone)
    IN  IF Len(p) > 0 /\ p[1] = "0" /\ Len(p) = PhoneLen THEN Tail(p) ELSE p

normalize_name(name) ==
    IF name = NONE THEN <<>> ELSE Lower(JoinSpace(Split(Strip(name))))

normalize_zone(zone) ==
    IF zone = NONE THEN <<>> ELSE Lower(JoinSpace(Split(Strip(zone))))

parse_customer_ids(cell) ==
    IF cell = NONE THEN <<>>
    ELSE Split(ReplaceChar(ReplaceChar(StripChars(Strip(cell), {"[", "]"}),
                                       "\n", " "), ",", " "))

(***************************************************************************)
(* Python dicts and optional values                                        *)
(***************************************************************************)
EmptyDict == << >>

DictPut(d, k, v) == [x \in (DOMAIN d) \cup {k} |-> IF x = k THEN v ELSE d[x]]

\* d[k] = [e]: the slot is replaced, not appended to
SetDefaultReplace(d, k, e) == DictPut(d, k, <<e>>)

\* d.setdefault(k, []).append(e)
SetDefaultAppend(d, k, e) ==
    IF k \in DOMAIN d THEN [d EXCEPT ![k] = Append(@, e)] ELSE DictPut(d, k, <<e>>)

\* d.get(k, default)
DictGet(d, k, default) == IF k \in DOMAIN d THEN d[k] ELSE default

\* a result field that is None, or holds a value
Absent == << >>
Some(x) == <<x>>

(***************************************************************************)
(* Ingestion: a fetched CSV after csv.DictReader has split it.  header is  *)
(* the list of column names, lines the list of data rows, each a list of   *)
(* cells.  A row shorter than the header gets None for the columns it      *)
(* lacks (DictReader's restval).                                           *)
(***************************************************************************)
IndexOf(seq, x) == CHOOSE i \in DOMAIN seq : seq[i] = x

RowDict(header, cells) ==
    [h \in ToSet(header) |->
        IF IndexOf(header, h) <= Len(cells) THEN cells[IndexOf(header, h)] ELSE NONE]

\* row.get(col, '')
RowGet(row, col) == IF col \in DOMAIN row THEN row[col] ELSE <<>>

\* the column names h with "name" in h.lower() or "receiver" in h.lower()
NameLikeHeaders == {"ReceiverFullName", "Name", "CustomerName", "receiver"}

DetectNameHeader(header) ==
    IF \E i \in DOMAIN header : header[i] \in NameLikeHeaders
    THEN Some(header[CHOOSE i \in DOMAIN header :
                  /\ header[i] \in NameLikeHeaders
                  /\ \A j \in 1..(i - 1) : header[j] \notin NameLikeHeaders])
    ELSE IF "ReceiverFullName" \in ToSet(header) THEN Some("ReceiverFullName")
    ELSE IF "Name" \in ToSet(header) THEN Some("Name")
    ELSE Absent

\* x or y, for strings and None
PyOr(x, y) == IF x = NONE \/ x = <<>> THEN y ELSE x

\* The values on which .strip() is called while one row is processed; a
\* None among them raises AttributeError.
PhoneRowStripped(row) ==
    {RowGet(row, "Phone"), RowGet(row, "Zone"), RowGet(row, "State"),
     RowGet(row, "City"), RowGet(row, "distinct_customers")}

NameRowValue(row, name_header) ==
    IF name_header # Absent
    THEN RowGet(row, name_header[1])
    ELSE PyOr(PyOr(RowGet(row, "ReceiverFullName"), RowGet(row, "Name")), <<>>)

NameRowStripped(row, name_header) ==
    {NameRowValue(row, name_header), RowGet(row, "Zone"), RowGet(row, "State"),
     RowGet(row, "City"), RowGet(row, "distinct_customers")}

PhoneEntry(row) ==
    [phone_raw |-> Strip(RowGet(row, "Phone")),
     phone_key |-> normalize_phone(Strip(RowGet(row, "Phone"))),
     state |-> Strip(RowGet(row, "State")),
     city |-> Strip(RowGet(row, "City")),
     zone |-> Strip(RowGet(row, "Zone")),
     distinct_customers |-> Strip(RowGet(row, "distinct_customers")),
     customer_ids |-> parse_customer_ids(RowGet(row, "customer_ids"))]

NameEntry(row, name_header) ==
    [name_raw |-> Strip(NameRowValue(row, name_header)),
     name_key |-> normalize_name(Strip(NameRowValue(row, name_header))),
     state |-> Strip(RowGet(row, "State")),
     city |-> Strip(RowGet(row, "City")),
     zone |-> Strip(RowGet(row, "Zone")),
     distinct_customers |-> Strip(RowGet(row, "distinct_customers")),
     customer_ids |-> parse_customer_ids(RowGet(row, "customer_ids"))]

\* temp_id_map[cid] = "0" + key: the zero-prefixed form stored for the key
RECURSIVE MapIdsZeroPrefixed(_, _, _)
MapIdsZeroPrefixed(id_map, ids, key) ==
    IF ids = <<>> THEN id_map
    ELSE MapIdsZeroPrefixed(DictPut(id_map, Head(ids), <<"0">> \o key), Tail(ids), key)

\* temp_id_map.setdefault(cid, key): the first row listing cid keeps it
RECURSIVE MapIdsKeepFirst(_, _, _)
MapIdsKeepFirst(id_map, ids, key) ==
    IF ids = <<>> THEN id_map
    ELSE MapIdsKeepFirst(IF Head(ids) \in DOMAIN id_map THEN id_map
                         ELSE DictPut(id_map, Head(ids), key),
                         Tail(ids), key)

\* for cid in ids: temp_id_map[cid] = key
RECURSIVE MapIds(_, _, _)
MapIds(id_map, ids, key) ==
    IF ids = <<>> THEN id_map
    ELSE MapIds(DictPut(id_map, Head(ids), key), Tail(ids), key)

\* The four structures fetch_and_parse_csv returns, and whether it returned
\* at all (ok) or raised.
EmptyFragment ==
    [ok |-> TRUE, list |-> <<>>, group |-> EmptyDict, id_map |-> EmptyDict,
     zone_map |-> EmptyDict]

Raised == [EmptyFragment EXCEPT !.ok = FALSE]

\* one iteration of "for row in reader"
AddEntry(acc, entry, key) ==
    [ok |-> TRUE,
     list |-> Append(acc.list, entry),
     group |-> SetDefaultAppend(acc.group, key, entry),
     id_map |-> MapIds(acc.id_map, entry.customer_ids, key),
     zone_map |-> IF normalize_zone(entry.zone) # <<>>
                  THEN SetDefaultAppend(acc.zone_map, normalize_zone(entry.zone), entry)
                  ELSE acc.zone_map]

RECURSIVE BuildRows(_, _, _, _, _)
BuildRows(header, lines, mode, name_header, acc) ==
    IF lines = <<>> THEN acc
    ELSE LET row == RowDict(header, Head(lines))
         IN  IF mode = "phone"
             THEN IF NONE \in PhoneRowStripped(row) THEN Raised
                  ELSE BuildRows(header, Tail(lines), mode, name_header,
                                 AddEntry(acc, PhoneEntry(row), PhoneEntry(row).phone_key))
             ELSE IF NONE \in NameRowStripped(row, name_header) THEN Raised
                  ELSE BuildRows(header, Tail(lines), mode, name_header,
                                 AddEntry(acc, NameEntry(row, name_header),
                                          NameEntry(row, name_header).name_key))

\* response is the outcome of requests.get + raise_for_status: a CSV, or
\* TransportError when the request raised.
TransportError == [header |-> <<>>, lines |-> <<>>, error |-> TRUE]

fetch_and_parse_csv(response, mode) ==
    IF response.error THEN Raised
    ELSE BuildRows(response.header, response.lines, mode,
                   IF mode = "name" THEN DetectNameHeader(response.header) ELSE Absent,
                   EmptyFragment)

(***************************************************************************)
(* Cross-linker and location building.  st is the record of the eight      *)
(* module-level index structures.  contacts_for_*_entry iterate over       *)
(* set(customer_ids); order is the order in which that set is iterated.    *)
(***************************************************************************)
\* the orders in which a set of strings can be iterated
IterOrders(S) ==
    {o \in [1..Cardinality(S) -> S] : \A i, j \in DOMAIN o : i # j => o[i] # o[j]}

\* the scan without the "cid in ne['customer_ids']" test
RECURSIVE ScanEntriesKeyOnly(_, _, _, _)
ScanEntriesKeyOnly(contacts, entries, cid, raw) ==
    IF entries = <<>> THEN contacts
    ELSE LET ne == Head(entries)
             val == Strip(ne[raw])
         IN  ScanEntriesKeyOnly(IF val # <<>> /\ val \notin ToSet(contacts)
                                THEN Append(contacts, val)
                                ELSE contacts,
                                Tail(entries), cid, raw)

\* the scan without the "not in seen" test
RECURSIVE ScanEntriesNoSeen(_, _, _, _)
ScanEntriesNoSeen(contacts, entries, cid, raw) ==
    IF entries = <<>> THEN contacts
    ELSE LET ne == Head(entries)
             val == Strip(ne[raw])
         IN  ScanEntriesNoSeen(IF cid \in ToSet(ne.customer_ids) /\ val # <<>>
                               THEN Append(contacts, val)
                               ELSE contacts,
                               Tail(entries), cid, raw)

\* for ne in entries: if cid in ne["customer_ids"]: append its raw value once
RECURSIVE ScanEntries(_, _, _, _)
ScanEntries(contacts, entries, cid, raw) ==
    IF entries = <<>> THEN contacts
    ELSE LET ne == Head(entries)
             val == Strip(ne[raw])
         IN  ScanEntries(IF /\ cid \in ToSet(ne.customer_ids)
                            /\ val # <<>>
                            /\ val \notin ToSet(contacts)
                         THEN Append(contacts, val)
                         ELSE contacts,
                         Tail(entries), cid, raw)

\* for cid in ids: key = id_map.get(cid); if not key: continue; scan entries
RECURSIVE LinkIds(_, _, _, _, _)
LinkIds(contacts, order, id_map, entries_map, raw) ==
    IF order = <<>> THEN contacts
    ELSE LET cid == Head(order)
             key == DictGet(id_map, cid, <<>>)
         IN  LinkIds(IF key = <<>> THEN contacts
                     ELSE ScanEntries(contacts, DictGet(entries_map, key, <<>>), cid, raw),
                     Tail(order), id_map, entries_map, raw)

\* the row's own value left out of its contact list
OwnContactOmitted(e, raw) == <<>>

OwnContact(e, raw) == IF Strip(e[raw]) # <<>> THEN <<Strip(e[raw])>> ELSE <<>>

contacts_for_phone_entry(e, order, st) ==
    LinkIds(OwnContact(e, "phone_raw"), order, st.customer_id_to_name, st.name_entries,
            "name_raw")

contacts_for_name_entry(e, order, st) ==
    LinkIds(OwnContact(e, "name_raw"), order, st.customer_id_to_phone, st.phone_entries,
            "phone_raw")

\* len(ids) in place of len(set(ids))
distinct_count_len(ids) == Len(ids)

distinct_count(ids) == Cardinality(ToSet(ids))

\* a list without its repeated elements, in order of first occurrence
RECURSIVE FirstOccurrences(_)
FirstOccurrences(ids) ==
    IF ids = <<>> THEN <<>>
    ELSE LET init == FirstOccurrences(SubSeq(ids, 1, Len(ids) - 1))
         IN  IF ids[Len(ids)] \in ToSet(init) THEN init ELSE Append(init, ids[Len(ids)])

\* the identifier list stored without its repeats
build_location_entry_unique_ids(base_entry, contacts) ==
    [state |-> base_entry.state,
     city |-> base_entry.city,
     zone |-> base_entry.zone,
     distinct_customers |-> distinct_count(base_entry.customer_ids),
     distinct_count |-> distinct_count(base_entry.customer_ids),
     customer_ids |-> FirstOccurrences(base_entry.customer_ids),
     contacts |-> contacts]

build_location_entry(base_entry, contacts) ==
    [state |-> base_entry.state,
     city |-> base_entry.city,
     zone |-> base_entry.zone,
     distinct_customers |-> distinct_count(base_entry.customer_ids),
     distinct_count |-> distinct_count(base_entry.customer_ids),
     customer_ids |-> base_entry.customer_ids,
     contacts |-> contacts]

(***************************************************************************)
(* Scorer                                                                  *)
(***************************************************************************)
Threshold == 5

RECURSIVE SumDistinct(_)
SumDistinct(locations) ==
    IF locations = <<>> THEN 0
    ELSE Head(locations).distinct_count + SumDistinct(Tail(locations))

\* ">=" in place of ">"
final_status_ge(locations, total) ==
    IF locations # <<>>
    THEN IF total >= Threshold THEN "fraud" ELSE "potential"
    ELSE "notfraud"

final_status(locations, total) ==
    IF locations # <<>>
    THEN IF total > Threshold THEN "fraud" ELSE "potential"
    ELSE "notfraud"

finalize_result_with_total(result_dict) ==
    [result_dict EXCEPT
        !.total_distinct_ids = Some(SumDistinct(result_dict.locations)),
        !.final_status = final_status(result_dict.locations,
                                      SumDistinct(result_dict.locations))]

(***************************************************************************)
(* Query resolver: the six strategies of get_query_result, in the order    *)
(* the code tries them.  l holds the query's locals q, norm_phone,         *)
(* norm_name and norm_zone.                                                *)
(***************************************************************************)
DisplayLen == 10

\* the six lookups without the "norm_... and" tests
StrategyHitUnguarded(i, l, st) ==
    CASE i = 1 -> l.norm_phone \in DOMAIN st.phone_entries
      [] i = 2 -> l.q \in DOMAIN st.customer_id_to_phone
      [] i = 3 -> l.norm_name \in DOMAIN st.name_entries
      [] i = 4 -> l.q \in DOMAIN st.customer_id_to_name
      [] i = 5 -> l.norm_zone \in DOMAIN st.zone_entries_phone
      [] i = 6 -> l.norm_zone \in DOMAIN st.zone_entries_name

StrategyHit(i, l, st) ==
    CASE i = 1 -> l.norm_phone # <<>> /\ l.norm_phone \in DOMAIN st.phone_entries
      [] i = 2 -> l.q \in DOMAIN st.customer_id_to_phone
      [] i = 3 -> l.norm_name # <<>> /\ l.norm_name \in DOMAIN st.name_entries
      [] i = 4 -> l.q \in DOMAIN st.customer_id_to_name
      [] i = 5 -> l.norm_zone # <<>> /\ l.norm_zone \in DOMAIN st.zone_entries_phone
      [] i = 6 -> l.norm_zone # <<>> /\ l.norm_zone \in DOMAIN st.zone_entries_name

StrategyEntries(i, l, st) ==
    CASE i = 1 -> st.phone_entries[l.norm_phone]
      [] i = 2 -> DictGet(st.phone_entries, st.customer_id_to_phone[l.q], <<>>)
      [] i = 3 -> st.name_entries[l.norm_name]
      [] i = 4 -> DictGet(st.name_entries, st.customer_id_to_name[l.q], <<>>)
      [] i = 5 -> st.zone_entries_phone[l.norm_zone]
      [] i = 6 -> st.zone_entries_name[l.norm_zone]

\* the strategies whose rows come from the phone CSV
PhoneStrategies == {1, 2, 5}

MatchType(i) ==
    CASE i = 1 -> "phone (phone CSV)"
      [] i = 2 -> "customer_id -> phone (phone CSV)"
      [] i = 3 -> "name (name CSV)"
      [] i = 4 -> "customer_id -> name (name CSV)"
      [] i = 5 -> "zone (phone CSV)"
      [] i = 6 -> "zone (name CSV)"

\* the identifier lookup tried before the phone key
TryOrderIdFirst == <<2, 1, 3, 4, 5, 6>>

\* the order in which get_query_result tries the strategies
TryOrder == <<1, 2, 3, 4, 5, 6>>

WithZero(key) == IF Len(key) = DisplayLen THEN <<"0">> \o key ELSE key

\* display_phone / display_name / zone_name of the matched strategy
DisplayValue(i, l, st, entries) ==
    CASE i = 1 -> IF Len(l.norm_phone) = DisplayLen THEN <<"0">> \o l.norm_phone ELSE l.q
      [] i = 2 -> WithZero(st.customer_id_to_phone[l.q])
      [] i = 3 -> entries[1].name_raw
      [] i = 4 -> IF entries # <<>> THEN entries[1].name_raw ELSE l.q
      [] i = 5 -> entries[1].zone
      [] i = 6 -> entries[1].zone

SearchDisplay(i, l, st, entries) ==
    IF i = 2 THEN l.q ELSE DisplayValue(i, l, st, entries)

MatchResult(i, l, st, entries, locations) ==
    finalize_result_with_total(
        [status |-> "fraud",
         locations |-> locations,
         match_type |-> Some(MatchType(i)),
         phone |-> IF i \in {1, 2} THEN Some(DisplayValue(i, l, st, entries)) ELSE Absent,
         name |-> IF i \in {3, 4} THEN Some(DisplayValue(i, l, st, entries)) ELSE Absent,
         zone |-> IF i \in {5, 6} THEN Some(DisplayValue(i, l, st, entries)) ELSE Absent,
         total_distinct_ids |-> Absent,
         final_status |-> "fraud"])

\* "not found" after running it through the scorer
NotFoundResultScored ==
    [status |-> "notfraud", locations |-> <<>>, match_type |-> Absent,
     phone |-> Absent, name |-> Absent, zone |-> Absent,
     total_distinct_ids |-> Some(0), final_status |-> "notfraud"]

NotFoundResult ==
    [status |-> "notfraud", locations |-> <<>>, match_type |-> Absent,
     phone |-> Absent, name |-> Absent, zone |-> Absent,
     total_distinct_ids |-> Absent, final_status |-> "notfraud"]

NotFoundDisplay(q) == IF Len(q) = DisplayLen THEN <<"0">> \o q ELSE q

(***************************************************************************)
(* The data the two remote CSVs may hold, and the queries users send.      *)
(***************************************************************************)
S_phone1_0 == <<"0", "1", "1", "1", "1", "1", "1", "1", "1", "1", "1">>
S_phone1 == <<"1", "1", "1", "1", "1", "1", "1", "1", "1", "1">>
S_phone2_0 == <<"0", "2", "2", "2", "2", "2", "2", "2", "2", "2", "2">>
S_phone2 == <<"2", "2", "2", "2", "2", "2", "2", "2", "2", "2">>
S_77 == <<"7", "7">>
S_c1 == <<"c", "1">>
S_c9 == <<"c", "9">>
S_c2 == <<"c", "2">>
S_c3 == <<"c", "3">>
S_D == <<"D">>
S_M == <<"M">>
S_North == <<"N", "o", "r", "t", "h">>
S_South == <<"S", "o", "u", "t", "h">>
S_East == <<"E", "a", "s", "t">>
S_West == <<"W", "e", "s", "t">>
S_north == <<"n", "o", "r", "t", "h">>
S_JOHN_DOE == <<"J", "O", "H", "N", " ", "D", "O", "E">>
S_zzz == <<"z", "z", "z">>
S_John__Doe == <<"J", "o", "h", "n", " ", " ", "D", "o", "e">>
S_Jane == <<"J", "a", "n", "e">>
S_1 == <<"1">>
S_2 == <<"2">>
S_3 == <<"3">>
S_9 == <<"9">>
S_ids_c1_c2_77 == <<"[", "c", "1", ",", " ", "c", "2", ",", " ", "7", "7", "]">>
S_ids_c1_c2_c3 == <<"[", "c", "1", " ", "c", "2", " ", "c", "3", "]">>
S_ids_c1_c1 == <<"[", "c", "1", " ", "c", "1", "]">>
S_ids_c1_c2 == <<"[", "c", "1", " ", "c", "2", "]">>
S_ids_commas == <<"c", "1", ",", "c", "2", ",", "c", "3">>
S_ids_c1 == <<"[", "c", "1", "]">>
S_ids_c1_c9 == <<"[", "c", "1", " ", "c", "9", "]">>
S_ids_c3 == <<"[", "c", "3", "]">>
S_ids_c5 == <<"[", "c", "5", "]">>
S_JANE == <<"J", "A", "N", "E">>
S_phone_e2e_0 == <<"0", "1", "7", "1", "0", "0", "0", "0", "0", "0", "1">>
S_phone_e2e == <<"1", "7", "1", "0", "0", "0", "0", "0", "0", "1">>
S_phone_sp_0 == <<"0", " ", "1", "1", "1", "1", "1", "1", "1", "1", "1">>
S_phone_sp == <<" ", "1", "1", "1", "1", "1", "1", "1", "1", "1">>
S_Dhaka == <<"D", "h", "a", "k", "a">>
S_Mirpur == <<"M", "i", "r", "p", "u", "r">>
S_John_Doe == <<"J", "o", "h", "n", " ", "D", "o", "e">>

PhoneHeader == <<"Phone", "State", "City", "Zone", "distinct_customers", "customer_ids">>

NameHeader ==
    <<"ReceiverFullName", "State", "City", "Zone", "distinct_customers", "customer_ids">>

Csv(header, lines) == [header |-> header, lines |-> lines, error |-> FALSE]

PhoneCsvA ==
    Csv(PhoneHeader,
        << <<S_phone1_0, S_D, S_M, S_North, S_3, S_ids_c1_c2_77>>,
           <<S_phone1, S_D, S_M, S_South, S_9, S_ids_c1_c2_c3>>,
           <<S_77, S_D, S_M, <<>>, S_1, S_ids_c1_c1>>,
           <<S_phone2_0, S_D, S_M, S_East, S_2, S_ids_c1_c2>>,
           <<S_phone2_0, S_D, S_M, S_East, S_3, S_ids_commas>> >>)

\* the second row has fewer cells than the header
PhoneCsvShort ==
    Csv(PhoneHeader,
        << <<S_phone1_0, S_D, S_M, S_North, S_2, S_ids_c1_c2>>,
           <<S_77, S_D>> >>)

NameCsvA ==
    Csv(NameHeader,
        << <<S_John__Doe, S_D, S_M, S_North, S_1, S_ids_c1>>,
           <<S_Jane, S_D, S_M, S_West, S_2, S_ids_c1_c9>>,
           <<S_North, S_D, S_M, S_South, S_1, S_ids_c3>> >>)

NameCsvShort ==
    Csv(NameHeader,
        << <<S_Jane, S_D, S_M, S_West, S_2, S_ids_c1_c9>>,
           <<S_John__Doe>> >>)

\* one phone row and one name row that share the identifier c1
PhoneCsvOne ==
    Csv(PhoneHeader,
        << <<S_phone_e2e_0, S_Dhaka, S_Mirpur, S_North, S_2, S_ids_c1_c2>> >>)

NameCsvOne ==
    Csv(NameHeader,
        << <<S_John_Doe, S_Dhaka, S_Mirpur, S_North, S_1, S_ids_c1>> >>)

\* rows with an empty Phone or name cell, with an empty identifier cell, and
\* two name rows under one key of which only one lists c1
PhoneCsvSparse ==
    Csv(PhoneHeader,
        << <<<<>>, S_D, S_M, S_North, S_1, S_ids_c3>>,
           <<S_77, S_D, S_M, <<>>, <<>>, <<>>>>,
           <<S_77, S_D, S_M, S_North, S_2, S_ids_c1_c9>> >>)

NameCsvSparse ==
    Csv(NameHeader,
        << <<<<>>, S_D, S_M, <<>>, S_1, S_ids_c3>>,
           <<S_Jane, S_D, S_M, S_West, S_2, S_ids_c1_c9>>,
           <<S_JANE, S_D, S_M, S_West, S_1, S_ids_c5>> >>)

SmallRemotes ==
    {[phone |-> PhoneCsvOne, name |-> NameCsvOne],
     [phone |-> PhoneCsvSparse, name |-> NameCsvSparse]}

\* what the two URLs may serve
Remotes ==
    {[phone |-> PhoneCsvA, name |-> NameCsvA],
     [phone |-> PhoneCsvShort, name |-> NameCsvShort]}

Queries ==
    {S_phone1, S_phone1_0, S_phone2, S_77, S_c1, S_c9, S_JOHN_DOE, S_north,
     <<" ">> \o S_West, S_zzz, <<>>, S_phone_e2e, S_c3}

(***************************************************************************)
(* State                                                                   *)
(***************************************************************************)
NumReaders == 1

Readers == 1..NumReaders

\* "bg" is the sync_csv_background thread, "od" a request to /internal/refresh
Refreshers == {"bg", "od"}

VARIABLES
    remote,   \* what each CSV URL currently serves
    store,    \* the eight module-level index structures
    lock,     \* the holder of data_lock
    rpc,      \* where each fetch_and_parse_all invocation stands
    rloc,     \* its locals
    qpc,      \* where each get_query_result invocation stands
    qloc,     \* its locals
    qres,     \* what it returned
    fnIn,     \* the string a normalizer is applied to
    fnOut     \* what it returns, applied once and twice

vars == <<remote, store, lock, rpc, rloc, qpc, qloc, qres, fnIn, fnOut>>

EmptyStore ==
    [fraud_list_phone |-> <<>>, phone_entries |-> EmptyDict,
     customer_id_to_phone |-> EmptyDict, zone_entries_phone |-> EmptyDict,
     fraud_list_name |-> <<>>, name_entries |-> EmptyDict,
     customer_id_to_name |-> EmptyDict, zone_entries_name |-> EmptyDict]

NoHolder == [refresher |-> "none", reader |-> 0]

RefresherIdle ==
    [phone |-> EmptyFragment, name |-> EmptyFragment,
     phone_fetch |-> "none", name_fetch |-> "none",
     step |-> 0, before |-> EmptyStore]

ReaderIdle ==
    [q |-> <<>>, norm_phone |-> <<>>, norm_name |-> <<>>, norm_zone |-> <<>>,
     pos |-> 0, entries |-> <<>>, locations |-> <<>>]

NotApplied == [fn |-> "none", once |-> <<>>, twice |-> <<>>]

NoResult == [result |-> NotFoundResult, search_display |-> <<>>]

InitSystem ==
    /\ remote \in Remotes
    /\ store = EmptyStore
    /\ lock = NoHolder
    /\ rloc = [r \in Refreshers |-> RefresherIdle]
    /\ qpc = [r \in Readers |-> "idle"]
    /\ qloc = [r \in Readers |-> ReaderIdle]
    /\ qres = [r \in Readers |-> NoResult]
    /\ fnIn = <<>>
    /\ fnOut = NotApplied

\* one refresher: the background thread
Init ==
    /\ InitSystem
    /\ rpc = [r \in Refreshers |-> IF r = "bg" THEN "idle" ELSE "off"]

\* one refresher, and remote CSVs of at most three rows
InitSmall ==
    /\ remote \in SmallRemotes
    /\ store = EmptyStore
    /\ lock = NoHolder
    /\ rpc = [r \in Refreshers |-> IF r = "bg" THEN "idle" ELSE "off"]
    /\ rloc = [r \in Refreshers |-> RefresherIdle]
    /\ qpc = [r \in Readers |-> "idle"]
    /\ qloc = [r \in Readers |-> ReaderIdle]
    /\ qres = [r \in Readers |-> NoResult]
    /\ fnIn = <<>>
    /\ fnOut = NotApplied

(***************************************************************************)
(* fetch_and_parse_all                                                     *)
(***************************************************************************)
FetchStatus(response, fragment) ==
    IF response.error THEN "transport_error"
    ELSE IF fragment.ok THEN "ok" ELSE "row_error"

\* try: phone_list, ... = fetch_and_parse_csv(CSV_URL_PHONE, mode="phone")
FetchPhone(r) ==
    /\ rpc[r] = "idle"
    /\ \E response \in {remote.phone, TransportError} :
         LET fragment == fetch_and_parse_csv(response, "phone")
         IN  rloc' = [rloc EXCEPT ![r].phone = fragment,
                                  ![r].phone_fetch = FetchStatus(response, fragment)]
    /\ rpc' = [rpc EXCEPT ![r] = "fetched_phone"]
    /\ UNCHANGED <<remote, store, lock, qpc, qloc, qres, fnIn, fnOut>>

\* the name fetch moved inside "with data_lock:"
FetchNameUnderLock(r) ==
    /\ rpc[r] = "fetched_phone"
    /\ lock = NoHolder
    /\ lock' = [NoHolder EXCEPT !.refresher = r]
    /\ \E response \in {remote.name, TransportError} :
         LET fragment == fetch_and_parse_csv(response, "name")
         IN  rloc' = [rloc EXCEPT ![r].name = fragment,
                                  ![r].name_fetch = FetchStatus(response, fragment)]
    /\ rpc' = [rpc EXCEPT ![r] = "fetched_name"]
    /\ UNCHANGED <<remote, store, qpc, qloc, qres, fnIn, fnOut>>

\* try: name_list, ... = fetch_and_parse_csv(CSV_URL_NAME, mode="name")
FetchName(r) ==
    /\ rpc[r] = "fetched_phone"
    /\ \E response \in {remote.name, TransportError} :
         LET fragment == fetch_and_parse_csv(response, "name")
         IN  rloc' = [rloc EXCEPT ![r].name = fragment,
                                  ![r].name_fetch = FetchStatus(response, fragment)]
    /\ rpc' = [rpc EXCEPT ![r] = "fetched_name"]
    /\ UNCHANGED <<remote, store, lock, qpc, qloc, qres, fnIn, fnOut>>

\* the install entered without waiting for data_lock
RefreshLockUnguarded(r) ==
    /\ rpc[r] = "fetched_name"
    /\ lock' = [NoHolder EXCEPT !.refresher = r]
    /\ rpc' = [rpc EXCEPT ![r] = "install"]
    /\ rloc' = [rloc EXCEPT ![r].step = 1, ![r].before = store]
    /\ UNCHANGED <<remote, store, qpc, qloc, qres, fnIn, fnOut>>

\* with data_lock:
RefreshLock(r) ==
    /\ rpc[r] = "fetched_name"
    /\ lock = NoHolder
    /\ lock' = [NoHolder EXCEPT !.refresher = r]
    /\ rpc' = [rpc EXCEPT ![r] = "install"]
    /\ rloc' = [rloc EXCEPT ![r].step = 1, ![r].before = store]
    /\ UNCHANGED <<remote, store, qpc, qloc, qres, fnIn, fnOut>>

\* the name structures updated from the phone locals
InstallOpsNameFromPhone ==
    << <<"fraud_list_phone", "clear", "phone", "list">>,
       <<"fraud_list_phone", "extend", "phone", "list">>,
       <<"phone_entries", "clear", "phone", "group">>,
       <<"phone_entries", "update", "phone", "group">>,
       <<"customer_id_to_phone", "clear", "phone", "id_map">>,
       <<"customer_id_to_phone", "update", "phone", "id_map">>,
       <<"zone_entries_phone", "clear", "phone", "zone_map">>,
       <<"zone_entries_phone", "update", "phone", "zone_map">>,
       <<"fraud_list_name", "clear", "name", "list">>,
       <<"fraud_list_name", "extend", "name", "list">>,
       <<"name_entries", "clear", "name", "group">>,
       <<"name_entries", "update", "phone", "group">>,
       <<"customer_id_to_name", "clear", "name", "id_map">>,
       <<"customer_id_to_name", "update", "phone", "id_map">>,
       <<"zone_entries_name", "clear", "name", "zone_map">>,
       <<"zone_entries_name", "update", "phone", "zone_map">> >>

\* the with-block without "phone_entries.update(phone_group)"
InstallOpsPhoneGroupNotRefilled ==
    << <<"fraud_list_phone", "clear", "phone", "list">>,
       <<"fraud_list_phone", "extend", "phone", "list">>,
       <<"phone_entries", "clear", "phone", "group">>,
       <<"customer_id_to_phone", "clear", "phone", "id_map">>,
       <<"customer_id_to_phone", "update", "phone", "id_map">>,
       <<"zone_entries_phone", "clear", "phone", "zone_map">>,
       <<"zone_entries_phone", "update", "phone", "zone_map">>,
       <<"fraud_list_name", "clear", "name", "list">>,
       <<"fraud_list_name", "extend", "name", "list">>,
       <<"name_entries", "clear", "name", "group">>,
       <<"name_entries", "update", "name", "group">>,
       <<"customer_id_to_name", "clear", "name", "id_map">>,
       <<"customer_id_to_name", "update", "name", "id_map">>,
       <<"zone_entries_name", "clear", "name", "zone_map">>,
       <<"zone_entries_name", "update", "name", "zone_map">> >>

\* the sixteen statements of the with-block, in order
InstallOps ==
    << <<"fraud_list_phone", "clear", "phone", "list">>,
       <<"fraud_list_phone", "extend", "phone", "list">>,
       <<"phone_entries", "clear", "phone", "group">>,
       <<"phone_entries", "update", "phone", "group">>,
       <<"customer_id_to_phone", "clear", "phone", "id_map">>,
       <<"customer_id_to_phone", "update", "phone", "id_map">>,
       <<"zone_entries_phone", "clear", "phone", "zone_map">>,
       <<"zone_entries_phone", "update", "phone", "zone_map">>,
       <<"fraud_list_name", "clear", "name", "list">>,
       <<"fraud_list_name", "extend", "name", "list">>,
       <<"name_entries", "clear", "name", "group">>,
       <<"name_entries", "update", "name", "group">>,
       <<"customer_id_to_name", "clear", "name", "id_map">>,
       <<"customer_id_to_name", "update", "name", "id_map">>,
       <<"zone_entries_name", "clear", "name", "zone_map">>,
       <<"zone_entries_name", "update", "name", "zone_map">> >>

\* dict.update(other)
DictUpdate(d, other) ==
    [k \in (DOMAIN d) \cup (DOMAIN other) |-> IF k \in DOMAIN other THEN other[k] ELSE d[k]]

\* the clear() statements left out
ApplyOpNoClear(target, op, src) ==
    CASE op = "clear" -> target
      [] op = "extend" -> target \o src
      [] op = "update" -> DictUpdate(target, src)

ApplyOp(target, op, src) ==
    CASE op = "clear" -> <<>>
      [] op = "extend" -> target \o src
      [] op = "update" -> DictUpdate(target, src)

\* one statement of the with-block
InstallStep(r) ==
    /\ rpc[r] = "install"
    /\ rloc[r].step <= Len(InstallOps)
    /\ LET op == InstallOps[rloc[r].step]
       IN  store' = [store EXCEPT ![op[1]] = ApplyOp(@, op[2], rloc[r][op[3]][op[4]])]
    /\ rloc' = [rloc EXCEPT ![r].step = @ + 1]
    /\ UNCHANGED <<remote, lock, rpc, qpc, qloc, qres, fnIn, fnOut>>

Installed(r) == rpc[r] = "install" /\ rloc[r].step = Len(InstallOps) + 1

\* the function returns without releasing data_lock
RefreshUnlockKeepsLock(r) ==
    /\ Installed(r)
    /\ rpc' = [rpc EXCEPT ![r] = "idle"]
    /\ rloc' = [rloc EXCEPT ![r] = RefresherIdle]
    /\ UNCHANGED <<remote, store, lock, qpc, qloc, qres, fnIn, fnOut>>

\* leaving the with-block, print, return
RefreshUnlock(r) ==
    /\ Installed(r)
    /\ lock' = NoHolder
    /\ rpc' = [rpc EXCEPT ![r] = "idle"]
    /\ rloc' = [rloc EXCEPT ![r] = RefresherIdle]
    /\ UNCHANGED <<remote, store, qpc, qloc, qres, fnIn, fnOut>>

\* some statement of the with-block has run and some has not
MidInstall == \E r \in Refreshers : rpc[r] = "install" /\ rloc[r].step \in 2..Len(InstallOps)

(***************************************************************************)
(* get_query_result                                                        *)
(***************************************************************************)
QueryLocals(query) ==
    [ReaderIdle EXCEPT !.q = Strip(query),
                       !.norm_phone = normalize_phone(Strip(query)),
                       !.norm_name = normalize_name(Strip(query)),
                       !.norm_zone = normalize_zone(Strip(query)),
                       !.pos = 1]

\* the resolution entered without data_lock
QueryStartUnguarded(r) ==
    /\ qpc[r] = "idle"
    /\ \E query \in Queries : qloc' = [qloc EXCEPT ![r] = QueryLocals(query)]
    /\ qpc' = [qpc EXCEPT ![r] = "try"]
    /\ UNCHANGED <<remote, store, lock, rpc, rloc, qres, fnIn, fnOut>>

\* q = query.strip(); norm_phone, norm_name, norm_zone; with data_lock:
QueryStartFrom(r, pool) ==
    /\ qpc[r] = "idle"
    /\ lock = NoHolder
    /\ lock' = [NoHolder EXCEPT !.reader = r]
    /\ \E query \in pool : qloc' = [qloc EXCEPT ![r] = QueryLocals(query)]
    /\ qpc' = [qpc EXCEPT ![r] = "try"]
    /\ UNCHANGED <<remote, store, rpc, rloc, qres, fnIn, fnOut>>

QueryStart(r) == QueryStartFrom(r, Queries)

ReleasedBy(r) == IF lock.reader = r THEN NoHolder ELSE lock

\* one "if ... in ...:" test of the with-block; on success entries is bound,
\* after the last failure the with-block is left and "not found" is built
QueryTry(r) ==
    /\ qpc[r] = "try"
    /\ LET i == TryOrder[qloc[r].pos]
       IN  IF StrategyHit(i, qloc[r], store)
           THEN /\ qloc' = [qloc EXCEPT ![r].entries = StrategyEntries(i, qloc[r], store)]
                /\ qpc' = [qpc EXCEPT ![r] = "expand"]
                /\ UNCHANGED <<lock, qres>>
           ELSE IF qloc[r].pos < Len(TryOrder)
           THEN /\ qloc' = [qloc EXCEPT ![r].pos = @ + 1]
                /\ UNCHANGED <<qpc, lock, qres>>
           ELSE /\ qloc' = qloc
                /\ qpc' = [qpc EXCEPT ![r] = "done"]
                /\ lock' = ReleasedBy(r)
                /\ qres' = [qres EXCEPT ![r] =
                              [result |-> NotFoundResult,
                               search_display |-> NotFoundDisplay(qloc[r].q)]]
    /\ UNCHANGED <<remote, store, rpc, rloc, fnIn, fnOut>>

\* one iteration of "for e in entries": contacts, then the location
QueryExpand(r) ==
    /\ qpc[r] = "expand"
    /\ Len(qloc[r].locations) < Len(qloc[r].entries)
    /\ LET e == qloc[r].entries[Len(qloc[r].locations) + 1]
       IN  \E order \in IterOrders(ToSet(e.customer_ids)) :
             LET contacts == IF TryOrder[qloc[r].pos] \in PhoneStrategies
                             THEN contacts_for_phone_entry(e, order, store)
                             ELSE contacts_for_name_entry(e, order, store)
             IN  qloc' = [qloc EXCEPT
                            ![r].locations = Append(@, build_location_entry(e, contacts))]
    /\ UNCHANGED <<remote, store, lock, rpc, rloc, qpc, qres, fnIn, fnOut>>

\* the matched query remembered in the phone index as if it were an identifier
QueryFinalizeCaching(r) ==
    /\ qpc[r] = "expand"
    /\ Len(qloc[r].locations) = Len(qloc[r].entries)
    /\ LET i == TryOrder[qloc[r].pos]
       IN  /\ qres' = [qres EXCEPT ![r] =
                         [result |-> MatchResult(i, qloc[r], store, qloc[r].entries,
                                                 qloc[r].locations),
                          search_display |-> SearchDisplay(i, qloc[r], store, qloc[r].entries)]]
           /\ store' = IF i = 1
                       THEN [store EXCEPT !.customer_id_to_phone =
                                DictPut(@, qloc[r].q, qloc[r].norm_phone)]
                       ELSE store
    /\ qpc' = [qpc EXCEPT ![r] = "return"]
    /\ UNCHANGED <<remote, lock, rpc, rloc, qloc, fnIn, fnOut>>

\* result = {...}; _finalize_result_with_total(result); search_display
QueryFinalize(r) ==
    /\ qpc[r] = "expand"
    /\ Len(qloc[r].locations) = Len(qloc[r].entries)
    /\ LET i == TryOrder[qloc[r].pos]
       IN  qres' = [qres EXCEPT ![r] =
                      [result |-> MatchResult(i, qloc[r], store, qloc[r].entries,
                                              qloc[r].locations),
                       search_display |-> SearchDisplay(i, qloc[r], store, qloc[r].entries)]]
    /\ qpc' = [qpc EXCEPT ![r] = "return"]
    /\ UNCHANGED <<remote, store, lock, rpc, rloc, qloc, fnIn, fnOut>>

\* return result, search_display: out of the with-block when a strategy
\* matched ("return"), or after it ("done")
QueryReturn(r) ==
    /\ qpc[r] \in {"return", "done"}
    /\ lock' = IF qpc[r] = "return" THEN ReleasedBy(r) ELSE lock
    /\ qpc' = [qpc EXCEPT ![r] = "idle"]
    /\ qloc' = [qloc EXCEPT ![r] = ReaderIdle]
    /\ qres' = [qres EXCEPT ![r] = NoResult]
    /\ UNCHANGED <<remote, store, rpc, rloc, fnIn, fnOut>>

Next ==
    \/ \E r \in Refreshers : FetchPhone(r)
    \/ \E r \in Refreshers : FetchName(r)
    \/ \E r \in Refreshers : RefreshLock(r)
    \/ \E r \in Refreshers : InstallStep(r)
    \/ \E r \in Refreshers : RefreshUnlock(r)
    \/ \E r \in Readers : QueryStart(r)
    \/ \E r \in Readers : QueryTry(r)
    \/ \E r \in Readers : QueryExpand(r)
    \/ \E r \in Readers : QueryFinalize(r)
    \/ \E r \in Readers : QueryReturn(r)

Spec == Init /\ [][Next]_vars

SpecSmall == InitSmall /\ [][Next]_vars

\* Queries for phone keys of ten characters and their zero-prefixed forms,
\* against a phone CSV one of whose Phone cells has a blank after the zero.
PhoneCsvEcho ==
    Csv(PhoneHeader,
        << <<S_phone_sp_0, S_D, S_M, S_North, S_1, S_ids_c1>>,
           <<S_phone1_0, S_D, S_M, S_South, S_2, S_ids_c1_c2>>,
           <<S_77, S_D, S_M, S_East, S_1, S_ids_c3>> >>)

EchoQueries == {S_phone1, S_phone1_0, S_phone_sp, S_phone_sp_0, S_77, S_zzz}

InitEcho ==
    /\ remote \in {[phone |-> PhoneCsvEcho, name |-> NameCsvOne]}
    /\ store = EmptyStore
    /\ lock = NoHolder
    /\ rpc = [r \in Refreshers |-> IF r = "bg" THEN "idle" ELSE "off"]
    /\ rloc = [r \in Refreshers |-> RefresherIdle]
    /\ qpc = [r \in Readers |-> "idle"]
    /\ qloc = [r \in Readers |-> ReaderIdle]
    /\ qres = [r \in Readers |-> NoResult]
    /\ fnIn = <<>>
    /\ fnOut = NotApplied

NextEcho ==
    \/ \E r \in Refreshers : FetchPhone(r)
    \/ \E r \in Refreshers : FetchName(r)
    \/ \E r \in Refreshers : RefreshLock(r)
    \/ \E r \in Refreshers : InstallStep(r)
    \/ \E r \in Refreshers : RefreshUnlock(r)
    \/ \E r \in Readers : QueryStartFrom(r, EchoQueries)
    \/ \E r \in Readers : QueryTry(r)
    \/ \E r \in Readers : QueryExpand(r)
    \/ \E r \in Readers : QueryFinalize(r)
    \/ \E r \in Readers : QueryReturn(r)

SpecEcho == InitEcho /\ [][NextEcho]_vars

\* Refreshes on their own, against remote CSVs that change between (and
\* during) refreshes.
ChangingRemotes ==
    {[phone |-> PhoneCsvA, name |-> NameCsvA],
     [phone |-> PhoneCsvSparse, name |-> NameCsvSparse]}

InitRefresh ==
    /\ remote \in ChangingRemotes
    /\ store = EmptyStore
    /\ lock = NoHolder
    /\ rpc = [r \in Refreshers |-> IF r = "bg" THEN "idle" ELSE "off"]
    /\ rloc = [r \in Refreshers |-> RefresherIdle]
    /\ qpc = [r \in Readers |-> "off"]
    /\ qloc = [r \in Readers |-> ReaderIdle]
    /\ qres = [r \in Readers |-> NoResult]
    /\ fnIn = <<>>
    /\ fnOut = NotApplied

\* the documents behind the two URLs are replaced
RemoteChange ==
    /\ \E other \in ChangingRemotes \ {remote} : remote' = other
    /\ UNCHANGED <<store, lock, rpc, rloc, qpc, qloc, qres, fnIn, fnOut>>

NextRefresh ==
    \/ \E r \in Refreshers : FetchPhone(r)
    \/ \E r \in Refreshers : FetchName(r)
    \/ \E r \in Refreshers : RefreshLock(r)
    \/ \E r \in Refreshers : InstallStep(r)
    \/ \E r \in Refreshers : RefreshUnlock(r)
    \/ RemoteChange

SpecRefresh == InitRefresh /\ [][NextRefresh]_vars

\* the background loop and on-demand refreshes overlapping, against remote
\* CSVs that change, so that the two invocations hold different fragments
InitOverlap ==
    /\ remote \in ChangingRemotes
    /\ store = EmptyStore
    /\ lock = NoHolder
    /\ rpc = [r \in Refreshers |-> "idle"]
    /\ rloc = [r \in Refreshers |-> RefresherIdle]
    /\ qpc = [r \in Readers |-> "off"]
    /\ qloc = [r \in Readers |-> ReaderIdle]
    /\ qres = [r \in Readers |-> NoResult]
    /\ fnIn = <<>>
    /\ fnOut = NotApplied

SpecOverlap == InitOverlap /\ [][NextRefresh]_vars

\* the background loop and on-demand refreshes, run concurrently with queries
InitFair ==
    /\ remote \in {[phone |-> PhoneCsvOne, name |-> NameCsvOne]}
    /\ store = EmptyStore
    /\ lock = NoHolder
    /\ rpc = [r \in Refreshers |-> "idle"]
    /\ rloc = [r \in Refreshers |-> RefresherIdle]
    /\ qpc = [r \in Readers |-> "idle"]
    /\ qloc = [r \in Readers |-> ReaderIdle]
    /\ qres = [r \in Readers |-> NoResult]
    /\ fnIn = <<>>
    /\ fnOut = NotApplied

\* the queries sent while both kinds of refresh run: one that matches, one
\* that does not
FairQueries == {S_c1, S_zzz}

NextFair ==
    \/ \E r \in Refreshers : FetchPhone(r)
    \/ \E r \in Refreshers : FetchName(r)
    \/ \E r \in Refreshers : RefreshLock(r)
    \/ \E r \in Refreshers : InstallStep(r)
    \/ \E r \in Refreshers : RefreshUnlock(r)
    \/ \E r \in Readers : QueryStartFrom(r, FairQueries)
    \/ \E r \in Readers : QueryTry(r)
    \/ \E r \in Readers : QueryExpand(r)
    \/ \E r \in Readers : QueryFinalize(r)
    \/ \E r \in Readers : QueryReturn(r)

\* the steps a refresh takes inside "with data_lock:"
RefreshLocked(r) == InstallStep(r) \/ RefreshUnlock(r)

\* the steps a query takes inside "with data_lock:", and its return
QueryLocked(r) == QueryTry(r) \/ QueryExpand(r) \/ QueryFinalize(r) \/ QueryReturn(r)

\* A thread that holds data_lock keeps running (weak fairness), and a refresh
\* blocked on data_lock acquires it if the lock is free again and again
\* (strong fairness).  Nothing is assumed about when requests arrive or when
\* a refresh begins.
Fairness ==
    /\ \A r \in Refreshers : SF_vars(RefreshLock(r)) /\ WF_vars(RefreshLocked(r))
    /\ \A r \in Readers : WF_vars(QueryLocked(r))

SpecFair == InitFair /\ [][NextFair]_vars /\ Fairness

(***************************************************************************)
(* The normalizers on their own: one of them is applied, once and twice,   *)
(* to a string drawn from NormInputs.                                      *)
(***************************************************************************)
MaxRun == 10

MaxAffix == 2

AffixChars == {"0", " ", "A"}

Affixes == UNION {[1..n -> AffixChars] : n \in 0..MaxAffix}

NormInputs == {a \o Rep("1", n) \o b : a \in Affixes, b \in Affixes, n \in 0..MaxRun}

InitNorm ==
    /\ remote \in {[phone |-> PhoneCsvShort, name |-> NameCsvShort]}
    /\ store = EmptyStore
    /\ lock = NoHolder
    /\ rpc = [r \in Refreshers |-> "off"]
    /\ rloc = [r \in Refreshers |-> RefresherIdle]
    /\ qpc = [r \in Readers |-> "off"]
    /\ qloc = [r \in Readers |-> ReaderIdle]
    /\ qres = [r \in Readers |-> NoResult]
    /\ fnIn \in NormInputs
    /\ fnOut = NotApplied

Applied(fn, once, twice) ==
    /\ fnOut = NotApplied
    /\ fnOut' = [fn |-> fn, once |-> once, twice |-> twice]
    /\ UNCHANGED <<remote, store, lock, rpc, rloc, qpc, qloc, qres, fnIn>>

ApplyNormalizePhone ==
    Applied("normalize_phone", normalize_phone(fnIn), normalize_phone(normalize_phone(fnIn)))

ApplyNormalizeName ==
    Applied("normalize_name", normalize_name(fnIn), normalize_name(normalize_name(fnIn)))

ApplyNormalizeZone ==
    Applied("normalize_zone", normalize_zone(fnIn), normalize_zone(normalize_zone(fnIn)))

NextNorm ==
    \/ ApplyNormalizePhone
    \/ ApplyNormalizeName
    \/ ApplyNormalizeZone

SpecNorm == InitNorm /\ [][NextNorm]_vars

(***************************************************************************)
(* fetch_and_parse_csv on its own: it is applied, in one of its two modes,  *)
(* to a CSV of at most MaxRows rows whose cells are drawn from small pools. *)
(***************************************************************************)
MaxRows == 2

PhoneCells == {S_phone1_0, S_phone1, <<>>}

NameCells == {S_John__Doe, S_JOHN_DOE, <<>>}

ZoneCells == {S_North, S_north, <<>>}

IdCells == {S_ids_c1, S_ids_c1_c2}

\* full rows, and one row with fewer cells than the header
BuildLines(first_cells) ==
    {<<first, S_D, S_M, zone, S_1, ids>> :
        first \in first_cells, zone \in ZoneCells, ids \in IdCells}
    \cup {<<S_77, S_D>>}

BuildInputs ==
    UNION {{Csv(PhoneHeader, lines) : lines \in [1..n -> BuildLines(PhoneCells)]}
           \cup {Csv(NameHeader, lines) : lines \in [1..n -> BuildLines(NameCells)]} :
           n \in 0..MaxRows}

InitBuild ==
    /\ remote \in {[phone |-> PhoneCsvShort, name |-> NameCsvShort]}
    /\ store = EmptyStore
    /\ lock = NoHolder
    /\ rpc = [r \in Refreshers |-> "off"]
    /\ rloc = [r \in Refreshers |-> RefresherIdle]
    /\ qpc = [r \in Readers |-> "off"]
    /\ qloc = [r \in Readers |-> ReaderIdle]
    /\ qres = [r \in Readers |-> NoResult]
    /\ fnIn \in BuildInputs
    /\ fnOut = NotApplied

ApplyBuildPhone ==
    /\ fnIn.header = PhoneHeader
    /\ Applied("fetch_and_parse_csv_phone", fetch_and_parse_csv(fnIn, "phone"),
               fetch_and_parse_csv(fnIn, "phone"))

ApplyBuildName ==
    /\ fnIn.header = NameHeader
    /\ Applied("fetch_and_parse_csv_name", fetch_and_parse_csv(fnIn, "name"),
               fetch_and_parse_csv(fnIn, "name"))

NextBuild ==
    \/ ApplyBuildPhone
    \/ ApplyBuildName

SpecBuild == InitBuild /\ [][NextBuild]_vars

(***************************************************************************)
(* Properties                                                              *)
(***************************************************************************)
PhoneFamily(st) ==
    <<st.fraud_list_phone, st.phone_entries, st.customer_id_to_phone, st.zone_entries_phone>>

NameFamily(st) ==
    <<st.fraud_list_name, st.name_entries, st.customer_id_to_name, st.zone_entries_name>>

FragmentFamily(fragment) ==
    <<fragment.list, fragment.group, fragment.id_map, fragment.zone_map>>

\* C1: when a refresh has run all its install statements and its ingestion
\* of a family had failed, that family's four structures are what they were
\* when the refresh took the lock.
FailedRefreshKeepsSnapshot ==
    \A r \in Refreshers :
        Installed(r) =>
            /\ rloc[r].phone_fetch # "ok" => PhoneFamily(store) = PhoneFamily(rloc[r].before)
            /\ rloc[r].name_fetch # "ok" => NameFamily(store) = NameFamily(rloc[r].before)

\* C2: a query that is resolving never sees the indexes part-way through an
\* install, and the indexes do not change while it is resolving.
Resolving(r) == qpc[r] \in {"try", "expand"}

QueryReadsOneInstalledState ==
    /\ [](\A r \in Readers : (Resolving(r) \/ qpc[r] = "return") => ~MidInstall)
    /\ [][\A r \in Readers : Resolving(r) => store' = store]_vars

QueryDuringPendingRefresh ==
    \E r \in Readers, f \in Refreshers :
        /\ qpc[r] = "expand"
        /\ qloc[r].locations # <<>>
        /\ rpc[f] = "fetched_name"
        /\ rloc[f].phone.group # store.phone_entries

\* The strategies as the specification words them, for a trimmed query q.
SpecHit(i, q, st) ==
    CASE i = 1 -> normalize_phone(q) \in DOMAIN st.phone_entries
      [] i = 2 -> q \in DOMAIN st.customer_id_to_phone
      [] i = 3 -> normalize_name(q) \in DOMAIN st.name_entries
      [] i = 4 -> q \in DOMAIN st.customer_id_to_name
      [] i = 5 -> normalize_zone(q) \in DOMAIN st.zone_entries_phone
      [] i = 6 -> normalize_zone(q) \in DOMAIN st.zone_entries_name

SpecRows(i, q, st) ==
    CASE i = 1 -> st.phone_entries[normalize_phone(q)]
      [] i = 2 -> st.phone_entries[st.customer_id_to_phone[q]]
      [] i = 3 -> st.name_entries[normalize_name(q)]
      [] i = 4 -> st.name_entries[st.customer_id_to_name[q]]
      [] i = 5 -> st.zone_entries_phone[normalize_zone(q)]
      [] i = 6 -> st.zone_entries_name[normalize_zone(q)]

SpecHits(q, st) == {i \in 1..6 : SpecHit(i, q, st)}

Lowest(S) == CHOOSE i \in S : \A j \in S : i <= j

\* the locations are those of exactly these rows, in order
LocationsOf(locations, rows) ==
    /\ Len(locations) = Len(rows)
    /\ \A k \in DOMAIN rows :
         /\ locations[k].state = rows[k].state
         /\ locations[k].city = rows[k].city
         /\ locations[k].zone = rows[k].zone
         /\ locations[k].customer_ids = rows[k].customer_ids

\* C3: for a query that is non-empty after trimming, the result carries the
\* match type and exactly the rows of the lowest-numbered strategy whose
\* lookup succeeds, and "not found" is returned only when none succeeds.
StrategyPrecedence ==
    /\ [](\A r \in Readers :
            (qpc[r] = "return" /\ qloc[r].q # <<>>) =>
                /\ SpecHits(qloc[r].q, store) # {}
                /\ qres[r].result.match_type =
                       Some(MatchType(Lowest(SpecHits(qloc[r].q, store))))
                /\ LocationsOf(qres[r].result.locations,
                               SpecRows(Lowest(SpecHits(qloc[r].q, store)), qloc[r].q, store)))
    /\ [][\A r \in Readers :
            (qpc[r] = "try" /\ qpc'[r] = "done" /\ qloc[r].q # <<>>) =>
                SpecHits(qloc[r].q, store) = {}]_vars

\* a query that is a phone key and also an identifier mapped to another key
PhoneKeyBeatsIdentifier ==
    \E r \in Readers :
        /\ qpc[r] = "return"
        /\ qloc[r].q \in DOMAIN store.phone_entries
        /\ qloc[r].q \in DOMAIN store.customer_id_to_phone
        /\ store.customer_id_to_phone[qloc[r].q] # qloc[r].q
        /\ qres[r].result.match_type = Some("phone (phone CSV)")

Returned(r) == qpc[r] \in {"return", "done"}

TotalOf(result) ==
    IF result.total_distinct_ids = Absent THEN 0 ELSE result.total_distinct_ids[1]

\* C4: the status is "notfraud" exactly when there are no locations, "fraud"
\* exactly when there are some and the total exceeds 5, "potential" exactly
\* when there are some and the total is at most 5.
StatusClassification ==
    \A r \in Readers :
        Returned(r) =>
            LET result == qres[r].result
                n == Len(result.locations)
            IN  /\ result.final_status \in {"notfraud", "fraud", "potential"}
                /\ result.final_status = "notfraud" <=> n = 0
                /\ result.final_status = "fraud" <=> (n > 0 /\ TotalOf(result) > 5)
                /\ result.final_status = "potential" <=> (n > 0 /\ TotalOf(result) <= 5)

TotalFiveIsPotential ==
    \E r \in Readers :
        /\ qpc[r] = "return"
        /\ qres[r].result.total_distinct_ids = Some(5)
        /\ qres[r].result.final_status = "potential"

RECURSIVE SumUnique(_)
SumUnique(rows) ==
    IF rows = <<>> THEN 0
    ELSE Cardinality(ToSet(Head(rows).customer_ids)) + SumUnique(Tail(rows))

AllIds(rows) == UNION {ToSet(rows[k].customer_ids) : k \in DOMAIN rows}

\* C5: the total of a match is the sum, over the matched rows, of the
\* number of unique identifiers of each row.
TotalIsSumOfRowCounts ==
    \A r \in Readers :
        qpc[r] = "return" =>
            /\ qres[r].result.total_distinct_ids = Some(SumUnique(qloc[r].entries))
            /\ \A k \in DOMAIN qloc[r].entries :
                 qres[r].result.locations[k].distinct_count =
                     Cardinality(ToSet(qloc[r].entries[k].customer_ids))

\* a total larger than the number of distinct identifiers of the matched
\* rows together, one of which repeats an identifier
TotalExceedsUnion ==
    \E r \in Readers :
        /\ qpc[r] = "return"
        /\ TotalOf(qres[r].result) > Cardinality(AllIds(qloc[r].entries))

\* C6: in an installed snapshot, a phone row and a name row that share an
\* identifier are each among the other's contacts.
CrossLinkSymmetry ==
    ~MidInstall =>
        \A i \in DOMAIN store.fraud_list_phone, j \in DOMAIN store.fraud_list_name :
            LET P == store.fraud_list_phone[i]
                N == store.fraud_list_name[j]
            IN  ToSet(P.customer_ids) \cap ToSet(N.customer_ids) # {} =>
                    /\ \A order \in IterOrders(ToSet(P.customer_ids)) :
                         N.name_raw \in ToSet(contacts_for_phone_entry(P, order, store))
                    /\ \A order \in IterOrders(ToSet(N.customer_ids)) :
                         P.phone_raw \in ToSet(contacts_for_name_entry(N, order, store))

\* C7: each normalizer applied twice gives what it gives applied once.
NormalizationIdempotent == fnOut.fn # "none" => fnOut.twice = fnOut.once

\* C8: whenever the transport delivered a CSV, the build returned and
\* indexed every row of it.
BuildNeverFailsOnMalformedRow ==
    \A r \in Refreshers :
        /\ rloc[r].phone_fetch \in {"ok", "row_error"} =>
              /\ rloc[r].phone.ok
              /\ Len(rloc[r].phone.list) = Len(remote.phone.lines)
        /\ rloc[r].name_fetch \in {"ok", "row_error"} =>
              /\ rloc[r].name.ok
              /\ Len(rloc[r].name.list) = Len(remote.name.lines)

\* C9: when a refresh has run all its install statements and exactly one
\* ingestion had failed, the other family's structures are the ones built
\* from its CSV.
IndependentFamilyInstall ==
    \A r \in Refreshers :
        Installed(r) =>
            /\ (rloc[r].phone_fetch = "ok" /\ rloc[r].name_fetch # "ok") =>
                  /\ PhoneFamily(store) = FragmentFamily(rloc[r].phone)
                  /\ rloc[r].phone = fetch_and_parse_csv(remote.phone, "phone")
            /\ (rloc[r].name_fetch = "ok" /\ rloc[r].phone_fetch # "ok") =>
                  /\ NameFamily(store) = FragmentFamily(rloc[r].name)
                  /\ rloc[r].name = fetch_and_parse_csv(remote.name, "name")

NameInstalledAfterPhoneFailed ==
    \E r \in Refreshers :
        /\ Installed(r)
        /\ rloc[r].phone_fetch = "transport_error"
        /\ rloc[r].name_fetch = "ok"
        /\ store.name_entries # EmptyDict
        /\ rloc[r].before.phone_entries # EmptyDict

\* C10: a query for which no strategy succeeds ends with the "not found"
\* result: no locations, no match type, no total, status "notfraud".
NoMatchIsNormalResult ==
    /\ [](\A r \in Readers :
            qpc[r] = "done" =>
                /\ qres[r].result.locations = <<>>
                /\ qres[r].result.match_type = Absent
                /\ qres[r].result.total_distinct_ids = Absent
                /\ qres[r].result.status = "notfraud"
                /\ qres[r].result.final_status = "notfraud")
    /\ [][\A r \in Readers :
            (qpc[r] = "try" /\ qpc'[r] # "try" /\ SpecHits(qloc[r].q, store) = {}) =>
                qpc'[r] = "done"]_vars

NotFoundBeforeAnyRefresh ==
    \E r \in Readers :
        /\ qpc[r] = "done"
        /\ qloc[r].q # <<>>
        /\ store = EmptyStore
        /\ \A f \in Refreshers : rpc[f] \in {"idle", "off"}

\* the Location of the one phone row of PhoneCsvOne
LocationOne ==
    [state |-> S_Dhaka,
     city |-> S_Mirpur,
     zone |-> S_North,
     distinct_customers |-> 2,
     distinct_count |-> 2,
     customer_ids |-> <<S_c1, S_c2>>,
     contacts |-> <<S_phone_e2e_0, S_John_Doe>>]

BothInstalledOne ==
    /\ remote = [phone |-> PhoneCsvOne, name |-> NameCsvOne]
    /\ store.phone_entries # EmptyDict
    /\ store.name_entries # EmptyDict

\* C11: with the phone row (01710000001, Dhaka, Mirpur, North, ids c1 c2) and
\* the name row (John Doe, Dhaka, Mirpur, North, id c1) both installed, the
\* query 1710000001 returns exactly one Location with distinct count 2 and
\* contacts 01710000001 and John Doe, total 2 and status potential; the query
\* c1 returns the same Location through the identifier-to-phone strategy.
EndToEndScenario ==
    \A r \in Readers :
        (qpc[r] = "return" /\ BothInstalledOne /\ qloc[r].q \in {S_phone_e2e, S_c1}) =>
            /\ qres[r].result.locations = <<LocationOne>>
            /\ qres[r].result.total_distinct_ids = Some(2)
            /\ qres[r].result.final_status = "potential"
            /\ qres[r].result.match_type =
                   Some(IF qloc[r].q = S_phone_e2e THEN MatchType(1) ELSE MatchType(2))

IdentifierResolvedToPhoneRow ==
    \E r \in Readers :
        /\ qpc[r] = "return"
        /\ BothInstalledOne
        /\ qloc[r].q = S_c1
        /\ qres[r].result.locations = <<LocationOne>>

\* a refresh that has not entered "with data_lock:" or has left it
FetchPhase(f) == rpc[f] \in {"idle", "fetched_phone", "fetched_name"}

\* C12: a refresh holds the lock only while it runs its install statements:
\* in its fetch phase it never holds the lock, a query finding the lock free
\* can take it, a query holding it always has a next step, and while a
\* refresh holds the lock neither of its fetches can run.
LockHeldOnlyForInstall ==
    /\ \A f \in Refreshers :
         /\ FetchPhase(f) => lock.refresher # f
         /\ lock.refresher = f =>
              /\ rpc[f] = "install"
              /\ ~ENABLED FetchPhone(f)
              /\ ~ENABLED FetchName(f)
    /\ \A r \in Readers :
         /\ (qpc[r] = "idle" /\ lock.reader = 0 /\ \A f \in Refreshers : rpc[f] # "install")
                => ENABLED QueryStart(r)
         /\ qpc[r] \in {"try", "expand", "return"} =>
                ENABLED (QueryTry(r) \/ QueryExpand(r) \/ QueryFinalize(r) \/ QueryReturn(r))

QueryResolvedDuringFetch ==
    \E r \in Readers, f \in Refreshers :
        /\ rpc[f] = "fetched_phone"
        /\ store.phone_entries # EmptyDict
        /\ qpc[r] = "return"
        /\ qres[r].result.locations # <<>>

LocationCountsUniqueIdentifiers ==
    \A r \in Readers :
        qpc[r] \in {"expand", "return"} =>
            \A k \in DOMAIN qloc[r].locations :
                LET loc == qloc[r].locations[k]
                    row == qloc[r].entries[k]
                    unique == {row.customer_ids[i] : i \in DOMAIN row.customer_ids}
                IN  /\ loc.distinct_count = Cardinality(unique)
                    /\ loc.distinct_customers = Cardinality(unique)
                    /\ loc.customer_ids = row.customer_ids

AdvisoryCountIgnored ==
    \E r \in Readers :
        /\ qpc[r] = "return"
        /\ \E k \in DOMAIN qloc[r].locations :
             /\ qloc[r].entries[k].distinct_customers = S_9
             /\ qloc[r].locations[k].distinct_count = 3

Built == fnOut.fn \in {"fetch_and_parse_csv_phone", "fetch_and_parse_csv_name"} /\ fnOut.once.ok

BuiltKey(row) == IF fnOut.fn = "fetch_and_parse_csv_phone" THEN row.phone_key ELSE row.name_key

\* the positions of the built rows whose identifier list holds id
Listing(rows, id) == {k \in DOMAIN rows : id \in ToSet(rows[k].customer_ids)}

Last(S) == CHOOSE k \in S : \A j \in S : j <= k

\* C15: after a family is built, idToKey is defined exactly on the
\* identifiers that occur on some row, and maps each of them to the
\* normalized key of the last row that lists it.
IdMapLastWriteWins ==
    Built =>
        LET rows == fnOut.once.list
            id_map == fnOut.once.id_map
        IN  /\ DOMAIN id_map = AllIds(rows)
            /\ \A id \in DOMAIN id_map : id_map[id] = BuiltKey(rows[Last(Listing(rows, id))])

IdentifierMovedToLaterKey ==
    /\ Built
    /\ \E id \in DOMAIN fnOut.once.id_map :
         \E j, k \in Listing(fnOut.once.list, id) :
            /\ j < k
            /\ BuiltKey(fnOut.once.list[j]) # BuiltKey(fnOut.once.list[k])

BothIngested(r) == rloc[r].phone_fetch = "ok" /\ rloc[r].name_fetch = "ok"

\* C16: when a refresh whose two ingestions succeeded has run all its
\* install statements, the eight structures are exactly the ones it built
\* from the rows it ingested, whatever the store held before; so if the
\* store already held that build, it is left as it was.
RefreshIsIdempotent ==
    \A r \in Refreshers :
        (Installed(r) /\ BothIngested(r)) =>
            /\ PhoneFamily(store) = FragmentFamily(rloc[r].phone)
            /\ NameFamily(store) = FragmentFamily(rloc[r].name)
            /\ (/\ PhoneFamily(rloc[r].before) = FragmentFamily(rloc[r].phone)
                /\ NameFamily(rloc[r].before) = FragmentFamily(rloc[r].name))
                   => store = rloc[r].before

EarlierSnapshotReplaced ==
    \E r \in Refreshers :
        /\ Installed(r)
        /\ BothIngested(r)
        /\ \E key \in DOMAIN rloc[r].before.phone_entries : key \notin DOMAIN store.phone_entries
        /\ \E id \in DOMAIN rloc[r].before.customer_id_to_name :
              id \notin DOMAIN store.customer_id_to_name

UnderLock(r) == qpc[r] \in {"try", "expand", "return"}

\* the strategies a query holding the lock has tried without success
Missed(r) == {TryOrder[j] : j \in 1..(qloc[r].pos - 1)}

\* the strategy that succeeded, for a query that is building or returning
Hit(r) == TryOrder[qloc[r].pos]

KeyMatchShape(r) ==
    qpc[r] = "return" =>
        /\ Hit(r) = 1 =>
             /\ qres[r].result.match_type = Some("phone (phone CSV)")
             /\ Len(qres[r].result.locations) = Len(store.phone_entries[qloc[r].norm_phone])
        /\ Hit(r) = 3 =>
             /\ qres[r].result.match_type = Some("name (name CSV)")
             /\ Len(qres[r].result.locations) = Len(store.name_entries[qloc[r].norm_name])

\* C17 as stated: strategy 1 never misses a query whose phone normalization
\* is a key of the phone family's byKey, the empty key included, and
\* strategy 3 never misses one whose name normalization is a key of the name
\* family's byKey; the result then has the family's match type and one
\* Location per row of the slot.
EveryKeyMatches ==
    \A r \in Readers :
        UnderLock(r) =>
            /\ 1 \in Missed(r) => qloc[r].norm_phone \notin DOMAIN store.phone_entries
            /\ 3 \in Missed(r) => qloc[r].norm_name \notin DOMAIN store.name_entries
            /\ KeyMatchShape(r)

\* C17 amended: strategy 1 never misses a query whose phone normalization is
\* a non-empty key of the phone family's byKey, and strategy 3 never misses
\* one whose name normalization is a non-empty key of the name family's
\* byKey; the result then has the family's match type and one Location per
\* row of the slot.  A query that is empty after trimming matches neither,
\* also when the builder has made a slot for the empty key.
EveryNonEmptyKeyMatches ==
    \A r \in Readers :
        UnderLock(r) =>
            /\ 1 \in Missed(r) =>
                 \/ qloc[r].norm_phone = <<>>
                 \/ qloc[r].norm_phone \notin DOMAIN store.phone_entries
            /\ 3 \in Missed(r) =>
                 \/ qloc[r].norm_name = <<>>
                 \/ qloc[r].norm_name \notin DOMAIN store.name_entries
            /\ qloc[r].q = <<>> => qpc[r] = "try"
            /\ KeyMatchShape(r)

PhoneKeyMatchedBesideEmptySlot ==
    \E r \in Readers :
        /\ qpc[r] = "return"
        /\ Hit(r) = 1
        /\ Len(qres[r].result.locations) = 2
        /\ <<>> \in DOMAIN store.phone_entries

\* a contact list of a row whose own raw value is own and identifier list ids
WellFormedContacts(contacts, own, ids) ==
    /\ \A i, j \in DOMAIN contacts : i # j => contacts[i] # contacts[j]
    /\ \A i \in DOMAIN contacts : contacts[i] # <<>>
    /\ own # <<>> => (contacts # <<>> /\ contacts[1] = own)
    /\ ids = <<>> => contacts = (IF own # <<>> THEN <<own>> ELSE <<>>)

\* C18: for every row of either family and every state of the indexes, the
\* contact list of the row (whatever the order in which its identifier set
\* is iterated) holds no string twice and no empty string, starts with the
\* row's own raw value when that is non-empty, and is just that value (or
\* empty) when the row has no identifiers; so does every contact list a
\* query has put in a Location.
ContactsAreWellFormed ==
    /\ \A k \in DOMAIN store.fraud_list_phone :
         LET e == store.fraud_list_phone[k]
         IN  \A order \in IterOrders(ToSet(e.customer_ids)) :
                WellFormedContacts(contacts_for_phone_entry(e, order, store),
                                   e.phone_raw, e.customer_ids)
    /\ \A k \in DOMAIN store.fraud_list_name :
         LET e == store.fraud_list_name[k]
         IN  \A order \in IterOrders(ToSet(e.customer_ids)) :
                WellFormedContacts(contacts_for_name_entry(e, order, store),
                                   e.name_raw, e.customer_ids)
    /\ \A r \in Readers :
         qpc[r] \in {"expand", "return"} =>
            \A k \in DOMAIN qloc[r].locations :
                WellFormedContacts(qloc[r].locations[k].contacts,
                                   IF Hit(r) \in PhoneStrategies
                                   THEN qloc[r].entries[k].phone_raw
                                   ELSE qloc[r].entries[k].name_raw,
                                   qloc[r].entries[k].customer_ids)

\* a returned phone row two of whose identifiers lead to the same name row
ContactReachedTwiceListedOnce ==
    \E r \in Readers :
        /\ qpc[r] = "return"
        /\ Hit(r) \in PhoneStrategies
        /\ \E k \in DOMAIN qloc[r].locations :
             LET ids == ToSet(qloc[r].entries[k].customer_ids)
                 contacts == qloc[r].locations[k].contacts
             IN  /\ Len(contacts) = 2
                 /\ \E a, b \in ids, n \in DOMAIN store.fraud_list_name :
                      /\ a # b
                      /\ {a, b} \subseteq ToSet(store.fraud_list_name[n].customer_ids)
                      /\ Strip(store.fraud_list_name[n].name_raw) = contacts[2]

\* C19: every contact list a query puts in a Location is the one obtained
\* by visiting the row's identifiers in the order of its identifier list
\* (each identifier at its first occurrence) and, for each, the other
\* family's rows under the mapped key in insertion order.
ContactsFollowIdentifierListOrder ==
    \A r \in Readers :
        qpc[r] \in {"expand", "return"} =>
            \A k \in DOMAIN qloc[r].locations :
                LET e == qloc[r].entries[k]
                    order == FirstOccurrences(e.customer_ids)
                IN  qloc[r].locations[k].contacts =
                        IF Hit(r) \in PhoneStrategies
                        THEN contacts_for_phone_entry(e, order, store)
                        ELSE contacts_for_name_entry(e, order, store)

\* the rows grouped under some key of a byKey mapping
GroupedRows(entries_map) ==
    UNION {ToSet(entries_map[key]) : key \in DOMAIN entries_map}

\* every contact is the row's own value in first place, or the raw value of
\* a row of the other family that shares an identifier with the row
SoundContacts(contacts, own, ids, entries_map, raw) ==
    \A i \in DOMAIN contacts :
        \/ i = 1 /\ own # <<>> /\ contacts[i] = own
        \/ \E other \in GroupedRows(entries_map) :
              /\ Strip(other[raw]) = contacts[i]
              /\ ToSet(other.customer_ids) \cap ToSet(ids) # {}

\* C20: for every row of either family and every state of the indexes, each
\* contact of the row other than its own value is the raw value of a row of
\* the other family that lists at least one of the row's identifiers; so is
\* each contact a query has put in a Location.
ContactsShareAnIdentifier ==
    /\ \A k \in DOMAIN store.fraud_list_phone :
         LET e == store.fraud_list_phone[k]
         IN  \A order \in IterOrders(ToSet(e.customer_ids)) :
                SoundContacts(contacts_for_phone_entry(e, order, store), e.phone_raw,
                              e.customer_ids, store.name_entries, "name_raw")
    /\ \A k \in DOMAIN store.fraud_list_name :
         LET e == store.fraud_list_name[k]
         IN  \A order \in IterOrders(ToSet(e.customer_ids)) :
                SoundContacts(contacts_for_name_entry(e, order, store), e.name_raw,
                              e.customer_ids, store.phone_entries, "phone_raw")
    /\ \A r \in Readers :
         qpc[r] \in {"expand", "return"} =>
            \A k \in DOMAIN qloc[r].locations :
                LET e == qloc[r].entries[k]
                IN  IF Hit(r) \in PhoneStrategies
                    THEN SoundContacts(qloc[r].locations[k].contacts, e.phone_raw,
                                       e.customer_ids, store.name_entries, "name_raw")
                    ELSE SoundContacts(qloc[r].locations[k].contacts, e.name_raw,
                                       e.customer_ids, store.phone_entries, "phone_raw")

\* a returned phone row with a discovered name, one of whose identifiers maps
\* to a key under which another name row, listing none of the phone row's
\* identifiers, is grouped and is not among the contacts
KeySharingRowLeftOut ==
    \E r \in Readers :
        /\ qpc[r] = "return"
        /\ Hit(r) \in PhoneStrategies
        /\ \E k \in DOMAIN qloc[r].locations :
             LET e == qloc[r].entries[k]
                 contacts == qloc[r].locations[k].contacts
             IN  /\ Len(contacts) >= 2
                 /\ \E id \in ToSet(e.customer_ids) \cap DOMAIN store.customer_id_to_name :
                      \E other \in ToSet(DictGet(store.name_entries,
                                                 store.customer_id_to_name[id], <<>>)) :
                         /\ ToSet(other.customer_ids) \cap ToSet(e.customer_ids) = {}
                         /\ Strip(other.name_raw) # <<>>
                         /\ Strip(other.name_raw) \notin ToSet(contacts)

\* the display value of a phone match on key k by the trimmed query q
EchoOf(k, q) == IF Len(k) = DisplayLen THEN <<"0">> \o k ELSE q

\* C21: a phone match on key k echoes "0" followed by k when k has ten
\* characters and the trimmed query otherwise, and the echo normalizes to k;
\* and for every ten-character key k of the phone family's byKey, a query
\* that is k or "0" followed by k is matched by strategy 1 on k, with the
\* rows of k's slot as its Locations and "0" followed by k as its echo.
PhoneEchoKeepsKey ==
    \A r \in Readers :
        UnderLock(r) =>
            /\ (qpc[r] = "return" /\ Hit(r) = 1) =>
                 /\ qres[r].search_display = EchoOf(qloc[r].norm_phone, qloc[r].q)
                 /\ qres[r].result.phone = Some(EchoOf(qloc[r].norm_phone, qloc[r].q))
                 /\ normalize_phone(qres[r].search_display) = qloc[r].norm_phone
            /\ \A k \in DOMAIN store.phone_entries :
                 (Len(k) = DisplayLen /\ qloc[r].q \in {Strip(k), Strip(<<"0">> \o k)}) =>
                     /\ 1 \notin Missed(r)
                     /\ qloc[r].norm_phone = k
                     /\ qpc[r] = "return" =>
                          /\ Hit(r) = 1
                          /\ LocationsOf(qres[r].result.locations, store.phone_entries[k])
                          /\ qres[r].search_display = <<"0">> \o k

\* the key and the zone key of an input line
LineKey(line) ==
    IF fnOut.fn = "fetch_and_parse_csv_phone"
    THEN normalize_phone(line[1])
    ELSE normalize_name(line[1])

LineZone(line) == normalize_zone(line[4])

\* the elements of list at the positions in S, in order
RECURSIVE Picked(_, _)
Picked(list, S) ==
    IF list = <<>> THEN <<>>
    ELSE LET init == Picked(SubSeq(list, 1, Len(list) - 1), S)
         IN  IF Len(list) \in S THEN Append(init, list[Len(list)]) ELSE init

\* the built row at position i is input line i
BuiltFrom(entry, line) ==
    /\ (IF fnOut.fn = "fetch_and_parse_csv_phone" THEN entry.phone_raw ELSE entry.name_raw)
           = Strip(line[1])
    /\ BuiltKey(entry) = LineKey(line)
    /\ entry.state = Strip(line[2])
    /\ entry.city = Strip(line[3])
    /\ entry.zone = Strip(line[4])
    /\ entry.customer_ids = parse_customer_ids(line[6])

\* C22: after a family is built, the built rows are the input lines in
\* order; byKey has a slot exactly for the normalized keys of the lines and
\* each slot is the subsequence of the rows with that key; byZone has a slot
\* exactly for the non-empty normalized zones of the lines and each slot is
\* the subsequence of the rows with that zone.
GroupsAreSubsequences ==
    Built =>
        LET lines == fnIn.lines
            rows == fnOut.once.list
            group == fnOut.once.group
            zone_map == fnOut.once.zone_map
        IN  /\ Len(rows) = Len(lines)
            /\ \A i \in DOMAIN lines : BuiltFrom(rows[i], lines[i])
            /\ DOMAIN group = {LineKey(lines[i]) : i \in DOMAIN lines}
            /\ \A k \in DOMAIN group :
                 group[k] = Picked(rows, {i \in DOMAIN lines : LineKey(lines[i]) = k})
            /\ DOMAIN zone_map = {LineZone(lines[i]) : i \in DOMAIN lines} \ {<<>>}
            /\ \A z \in DOMAIN zone_map :
                 zone_map[z] = Picked(rows, {i \in DOMAIN lines : LineZone(lines[i]) = z})

\* two lines whose raw values differ, under one key and under one zone
RowsGroupedByNormalizedValue ==
    /\ Built
    /\ \E k \in DOMAIN fnOut.once.group, z \in DOMAIN fnOut.once.zone_map :
         /\ Len(fnOut.once.group[k]) = 2
         /\ fnIn.lines[1][1] # fnIn.lines[2][1]
         /\ Len(fnOut.once.zone_map[z]) = 2
         /\ fnIn.lines[1][4] # fnIn.lines[2][4]

\* res is a result of resolving the trimmed query q against the indexes st:
\* the one the first succeeding strategy gives, each Location built from its
\* row with the contacts of some iteration order of the row's identifiers
IsResultOf(res, q, st) ==
    LET l == QueryLocals(q)
        hits == {i \in 1..6 : StrategyHit(i, l, st)}
    IN  IF hits = {} THEN res = [result |-> NotFoundResult, search_display |-> NotFoundDisplay(q)]
        ELSE LET i == Lowest(hits)
                 entries == StrategyEntries(i, l, st)
                 locations == res.result.locations
             IN  /\ Len(locations) = Len(entries)
                 /\ \A k \in DOMAIN entries :
                      \E order \in IterOrders(ToSet(entries[k].customer_ids)) :
                         locations[k] =
                            build_location_entry(entries[k],
                                IF i \in PhoneStrategies
                                THEN contacts_for_phone_entry(entries[k], order, st)
                                ELSE contacts_for_name_entry(entries[k], order, st))
                 /\ res = [result |-> MatchResult(i, l, st, entries, locations),
                           search_display |-> SearchDisplay(i, l, st, entries)]

\* C23: a step of a query changes neither the indexes nor the remote
\* documents nor a refresh's locals, and the result a query holds at its
\* return is a result of resolving its own query string against the indexes
\* as they are, whatever was resolved before.
QueriesAreReadOnly ==
    /\ [][(qpc' # qpc \/ qloc' # qloc \/ qres' # qres) =>
             (store' = store /\ remote' = remote /\ rloc' = rloc /\ rpc' = rpc)]_vars
    /\ [](\A r \in Readers :
            qpc[r] = "return" => IsResultOf(qres[r], qloc[r].q, store))

\* a query returns two Locations and the indexes are still the build of the
\* remote documents
StoreIntactAtReturn ==
    \E r \in Readers :
        /\ qpc[r] = "return"
        /\ Len(qres[r].result.locations) = 2
        /\ PhoneFamily(store) = FragmentFamily(fetch_and_parse_csv(remote.phone, "phone"))
        /\ NameFamily(store) = FragmentFamily(fetch_and_parse_csv(remote.name, "name"))

\* no refresh is inside "with data_lock:", so a query may read the indexes
Observable == lock.refresher = "none"

\* byKey (group), idToKey (id_map) and byZone (zone_map) of one family, whose
\* rows carry their key in the field key_field
FamilyIntegrity(group, id_map, zone_map, key_field) ==
    /\ \A id \in DOMAIN id_map :
         /\ id_map[id] \in DOMAIN group
         /\ \E n \in DOMAIN group[id_map[id]] :
               id \in ToSet(group[id_map[id]][n].customer_ids)
    /\ \A k \in DOMAIN group : group[k] # <<>>
    /\ \A z \in DOMAIN zone_map :
         /\ zone_map[z] # <<>>
         /\ \A n \in DOMAIN zone_map[z] :
              LET row == zone_map[z][n]
              IN  /\ row[key_field] \in DOMAIN group
                  /\ row \in ToSet(group[row[key_field]])

\* C24: whenever no refresh holds the lock, in each family every value of
\* idToKey is a key of byKey whose slot has a row listing the identifier,
\* every byKey and byZone slot is non-empty, and every row of a byZone slot
\* is in the byKey slot of its own key.
ReferentialIntegrity ==
    Observable =>
        /\ FamilyIntegrity(store.phone_entries, store.customer_id_to_phone,
                           store.zone_entries_phone, "phone_key")
        /\ FamilyIntegrity(store.name_entries, store.customer_id_to_name,
                           store.zone_entries_name, "name_key")

\* the indexes read by a query after a refresh that failed for one family:
\* the other family has an identifier whose slot also holds a row not
\* listing it
IntegrityAfterHalfFailedRefresh ==
    /\ \E r \in Readers : qpc[r] = "try"
    /\ store.name_entries = EmptyDict
    /\ \E id \in DOMAIN store.customer_id_to_phone :
         \E n \in DOMAIN store.phone_entries[store.customer_id_to_phone[id]] :
            id \notin ToSet(store.phone_entries[store.customer_id_to_phone[id]][n].customer_ids)

\* C25: a returned result has a match type exactly when it has a Location,
\* and final status "notfraud" exactly when no strategy matched; a strategy
\* that matched (the identifier strategies included) has at least one row,
\* and the result has one Location per row of the matched slot, in slot
\* order.
MatchTypeIffLocations ==
    \A r \in Readers :
        /\ Returned(r) =>
             /\ qres[r].result.match_type # Absent <=> qres[r].result.locations # <<>>
             /\ qres[r].result.final_status = "notfraud" <=> qpc[r] = "done"
             /\ qres[r].result.match_type = Absent <=> qpc[r] = "done"
        /\ qpc[r] \in {"expand", "return"} =>
             /\ qloc[r].entries # <<>>
             /\ qloc[r].entries = StrategyEntries(Hit(r), qloc[r], store)
        /\ qpc[r] = "return" =>
             /\ qres[r].result.match_type = Some(MatchType(Hit(r)))
             /\ LocationsOf(qres[r].result.locations,
                            StrategyEntries(Hit(r), qloc[r], store))

\* an identifier mapped to the empty key resolves to the rows of that slot
IdentifierOfEmptyKeyMatched ==
    \E r \in Readers :
        /\ qpc[r] = "return"
        /\ Hit(r) = 2
        /\ store.customer_id_to_phone[qloc[r].q] = <<>>
        /\ qres[r].result.locations # <<>>

\* C26: overlapping refresh invocations install one at a time: at most one
\* of them is inside the critical section and it is the lock holder; when an
\* invocation has run all its install statements both families are exactly
\* the fragments of that invocation (never one family of the other
\* invocation), and the store does not change while no invocation holds the
\* lock, so that after both have finished it holds the fragments of the
\* invocation that entered the critical section last.
InstallsAreMutuallyExclusive ==
    /\ [](\A r \in Refreshers : rpc[r] = "install" <=> lock.refresher = r)
    /\ [](\A r \in Refreshers :
            Installed(r) =>
                /\ PhoneFamily(store) = FragmentFamily(rloc[r].phone)
                /\ NameFamily(store) = FragmentFamily(rloc[r].name))
    /\ [][lock.refresher = "none" => store' = store]_vars
    /\ [][\A r \in Refreshers :
            (lock.refresher = r /\ lock'.refresher # r) =>
                /\ Installed(r)
                /\ lock' = NoHolder
                /\ store' = store]_vars

\* an invocation has finished installing while the other one, which installed
\* before it, is already holding different fragments of both families for its
\* next install
OverlappingInvocationsDiffer ==
    \E r, o \in Refreshers :
        /\ r # o
        /\ Installed(r)
        /\ rpc[o] = "fetched_name"
        /\ rloc[o].phone # rloc[r].phone
        /\ rloc[o].name # rloc[r].name
        /\ PhoneFamily(rloc[r].before) = FragmentFamily(rloc[o].phone)
        /\ NameFamily(rloc[r].before) = FragmentFamily(rloc[o].name)
        /\ rloc[r].before # store

=============================================================================
